---- MODULE Spec2Model ----
(***************************************************************************)
(* Model of the mobile parallax controller, in its two script variants:    *)
(*   "mobile-parallax.js"  src/assets/js/mobile-parallax.js (opacity fade, *)
(*                         user-agent gate, scroll fallback)               *)
(*   "part_000"            src/unnamed/part_000 (display switch, border    *)
(*                         overlay, module-level observer)                 *)
(* The variant is chosen in Init; every handler of the script is one       *)
(* action.  Script functions are operators from a program-state record to  *)
(* a program-state record and keep the names they have in the source.      *)
(*                                                                         *)
(* Environment assumptions:                                                *)
(*  - part_000 constructs IntersectionObserver unconditionally, so it is   *)
(*    modelled only in a window that has the constructor;                  *)
(*  - IntersectionObserver.disconnect() drops the observer together with   *)
(*    its undelivered entries;                                             *)
(*  - a timer task that is due runs before any later event is dispatched.  *)
(***************************************************************************)
EXTENDS Integers, Sequences, FiniteSets, TLC

VARIABLES
    variant,                 \* which script is loaded
    userAgent,               \* outcomes of the user-agent tests
    hasIntersectionObserver, \* 'IntersectionObserver' in window
    present,                 \* section ids that exist in the document
    origBg,                  \* inline background of each section at load
    layout,                  \* height of each section
    innerWidth,              \* window.innerWidth
    scrollY,                 \* window scroll offset
    started,                 \* init() has run (resize listener registered)
    parallaxElements,
    currentVisibleSection,
    isInitialized,
    ticking,
    observer,                \* part_000 only: index into observers, 0 = null
    resizeTimeout,           \* last timer handle, 0 = undefined
    body,                    \* nodes the script inserted under document.body
    bg,                      \* section.style.background of each section
    observers,               \* connected IntersectionObservers
    scrollListeners,         \* registered 'scroll' listeners (onScroll closures)
    rafQueue,                \* requested animation-frame callbacks
    timers,                  \* pending timeouts: handle -> remaining ms
    elapsed,                 \* ms since the last resize event, capped at Delay
    resizes,                 \* resize events dispatched so far
    activations,             \* INACTIVE -> ACTIVE transitions so far
    burstLen,                \* resize events of the current burst
    runsInBurst,             \* handleResize runs since the current burst began
    transInBurst,            \* lifecycle transitions since the current burst began
    calls,                   \* direct calls of lifecycle functions so far
    trail,                   \* values currentVisibleSection changed to while scrolling
    lastTransition,          \* transition made by the last handler
    lastBatch,               \* entries of the last recorded notification batch
    lastWrites               \* layer style writes of the last direct updateVisibleBackground call

envVars  == <<variant, userAgent, hasIntersectionObserver, present, origBg, layout>>
progVars == <<parallaxElements, currentVisibleSection, isInitialized, ticking,
              observer, body, bg, observers, scrollListeners, rafQueue>>
histVars == <<elapsed, resizes, activations, burstLen, runsInBurst, transInBurst, calls, trail,
              lastTransition, lastBatch, lastWrites>>
vars == <<envVars, progVars, histVars, innerWidth, scrollY, started,
          resizeTimeout, timers>>

----------------------------------------------------------------------------
(* Bounds of the model *)

MaxResizes  == 3    \* resize events in a run
MaxBatchLen == 2    \* entries in an arbitrary notification batch
RatioMax    == 1    \* intersection ratios k/RatioMax, k in 0..RatioMax
ViewportHeight == 10   \* window.innerHeight, in layout units
MaxStep     == 2    \* scroll distance between two rendered frames
MaxCalls    == 4    \* direct calls of lifecycle functions in a run

----------------------------------------------------------------------------
(* Program constants *)

MobileMaxWidth == 736
Delay == 150

MP == "mobile-parallax.js"
P0 == "part_000"
Variants == {MP, P0}

Null == "null"

parallaxSections == <<"intro", "one", "two">>
SectionIds == {parallaxSections[i] : i \in DOMAIN parallaxSections}

ContainerId == "parallax-bg-container"
BorderId    == "parallax-border-overlay"

\* the style value a layer is created with, and the one that shows it
HiddenStyle(v) == IF v = MP THEN "0" ELSE "none"
ShownStyle(v)  == IF v = MP THEN "1" ELSE "block"

\* rootMargin of the observer, percent cut from top and bottom
RootMarginPct(v) == IF v = MP THEN 30 ELSE 40

\* thresholds of the observer, in tenths
Thresholds(v) == IF v = MP THEN <<0, 1, 2, 3, 4, 5, 6, 7, 8, 9, 10>> ELSE <<0>>

----------------------------------------------------------------------------
(* Activation gate *)

\* mutant: strict comparison
isMobileOrSmallScreen_Strict == innerWidth < MobileMaxWidth

isMobileOrSmallScreen == innerWidth <= MobileMaxWidth

isFixedBackgroundSupported ==
    LET isIOS == userAgent.iDevice /\ ~userAgent.MSStream
        isSafari == userAgent.safari
        isMobileDevice == userAgent.mobileToken
    IN  ~(isIOS \/ (isMobileDevice /\ isSafari))

\* the condition init() and handleResize() test
Gate ==
    IF variant = MP THEN isMobileOrSmallScreen /\ ~isFixedBackgroundSupported
                    ELSE isMobileOrSmallScreen

----------------------------------------------------------------------------
(* Program state as a record, so that script functions compose *)

Cur == [parallaxElements |-> parallaxElements,
        currentVisibleSection |-> currentVisibleSection,
        isInitialized |-> isInitialized,
        ticking |-> ticking,
        observer |-> observer,
        body |-> body,
        bg |-> bg,
        observers |-> observers,
        scrollListeners |-> scrollListeners,
        rafQueue |-> rafQueue,
        writes |-> 0]

Commit(s) ==
    /\ parallaxElements' = s.parallaxElements
    /\ currentVisibleSection' = s.currentVisibleSection
    /\ isInitialized' = s.isInitialized
    /\ ticking' = s.ticking
    /\ observer' = s.observer
    /\ body' = s.body
    /\ bg' = s.bg
    /\ observers' = s.observers
    /\ scrollListeners' = s.scrollListeners
    /\ rafQueue' = s.rafQueue

----------------------------------------------------------------------------
(* DOM helpers *)

MaxOf(S) == CHOOSE x \in S : \A y \in S : y <= x

\* identity of a newly created container node
NewKey(b) == IF Len(b) = 0 THEN 1 ELSE 1 + MaxOf({b[i].key : i \in DOMAIN b})

\* document.getElementById: position of the first node with that id, 0 if none
getElementById(b, id) ==
    IF \E i \in DOMAIN b : b[i].id = id
    THEN CHOOSE i \in DOMAIN b : b[i].id = id /\ \A j \in 1..(i - 1) : b[j].id # id
    ELSE 0

\* parentNode.removeChild
removeChild(b, i) == [j \in 1..(Len(b) - 1) |-> IF j < i THEN b[j] ELSE b[j + 1]]

\* element.style.<property> = val, for a layer held by reference <<key, index>>;
\* a write to a layer whose container left the document is not observable
SetLayerStyle(b, ref, val) ==
    [n \in DOMAIN b |->
        IF b[n].id = ContainerId /\ b[n].key = ref[1]
        THEN [b[n] EXCEPT !.layers[ref[2]].style = val]
        ELSE b[n]]

\* all layer elements in the document
DomLayers ==
    {<<n, i>> \in (DOMAIN body) \X (DOMAIN parallaxSections) :
        i \in DOMAIN body[n].layers}

VisibleLayers == {l \in DomLayers : body[l[1]].layers[l[2]].style = ShownStyle(variant)}

Containers == {n \in DOMAIN body : body[n].id = ContainerId}
Borders    == {n \in DOMAIN body : body[n].id = BorderId}

\* the sections observe() is called on, in configuration order
PresentSeq == SelectSeq(parallaxSections, LAMBDA id : id \in present)

----------------------------------------------------------------------------
(* Script functions *)

createFixedBackground(s) ==
    LET k == NewKey(s.body)
        container ==
            [id |-> ContainerId, key |-> k,
             layers |-> [i \in DOMAIN parallaxSections |->
                            [section |-> parallaxSections[i],
                             style |-> HiddenStyle(variant)]]]
        borderOverlay == [id |-> BorderId, key |-> 0, layers |-> <<>>]
        pushed == [i \in DOMAIN parallaxSections |->
                      [sectionId |-> parallaxSections[i], element |-> <<k, i>>]]
        withContainer == <<container>> \o s.body
    IN  [s EXCEPT
            !.parallaxElements = s.parallaxElements \o pushed,
            !.body = IF variant = P0 THEN <<borderOverlay>> \o withContainer
                                     ELSE withContainer]

\* mutant: shows the matching layer and never hides the others
RECURSIVE WriteLayers_ShowOnly(_, _, _, _)
WriteLayers_ShowOnly(b, pe, i, sectionId) ==
    IF i > Len(pe) THEN b
    ELSE WriteLayers_ShowOnly(
            IF pe[i].sectionId = sectionId
            THEN SetLayerStyle(b, pe[i].element, ShownStyle(variant)) ELSE b,
            pe, i + 1, sectionId)

\* the forEach of updateVisibleBackground
RECURSIVE WriteLayers(_, _, _, _)
WriteLayers(b, pe, i, sectionId) ==
    IF i > Len(pe) THEN b
    ELSE WriteLayers(
            SetLayerStyle(b, pe[i].element,
                          IF pe[i].sectionId = sectionId
                          THEN ShownStyle(variant) ELSE HiddenStyle(variant)),
            pe, i + 1, sectionId)

\* the function without its early return
updateVisibleBackground_NoGuard(s, sectionId) ==
    [s EXCEPT
        !.currentVisibleSection = sectionId,
        !.body = WriteLayers(s.body, s.parallaxElements, 1, sectionId),
        !.writes = s.writes + Len(s.parallaxElements)]

\* writes counts the style assignments: one per item of parallaxElements
updateVisibleBackground(s, sectionId) ==
    IF s.currentVisibleSection = sectionId THEN s
    ELSE [s EXCEPT
            !.currentVisibleSection = sectionId,
            !.body = WriteLayers(s.body, s.parallaxElements, 1, sectionId),
            !.writes = s.writes + Len(s.parallaxElements)]

\* intersectionRatio values are rationals <<numerator, denominator>>
RatioGT(a, b) == a[1] * b[2] > b[1] * a[2]

\* the forEach of the observer callback: returns the chosen entry or Null
\* "no entry chosen" (null in the script)
NoEntry == [target |-> Null, isIntersecting |-> FALSE, intersectionRatio |-> <<0, 1>>]

RECURSIVE MostVisibleEntryMP(_, _, _, _)
MostVisibleEntryMP(entries, i, mostVisibleEntry, maxRatio) ==
    IF i > Len(entries) THEN mostVisibleEntry
    ELSE IF entries[i].isIntersecting /\ RatioGT(entries[i].intersectionRatio, maxRatio)
         THEN MostVisibleEntryMP(entries, i + 1, entries[i], entries[i].intersectionRatio)
         ELSE MostVisibleEntryMP(entries, i + 1, mostVisibleEntry, maxRatio)

RECURSIVE BestEntryP0(_, _, _)
BestEntryP0(entries, i, bestEntry) ==
    IF i > Len(entries) THEN bestEntry
    ELSE IF entries[i].isIntersecting
            /\ (bestEntry.target = Null
                \/ RatioGT(entries[i].intersectionRatio, bestEntry.intersectionRatio))
         THEN BestEntryP0(entries, i + 1, entries[i])
         ELSE BestEntryP0(entries, i + 1, bestEntry)

SelectEntry(entries) ==
    IF variant = MP THEN MostVisibleEntryMP(entries, 1, NoEntry, <<0, 1>>)
                    ELSE BestEntryP0(entries, 1, NoEntry)

\* the callback without its null check: falls back to the first entry
ObserverCallback_FirstOnNone(s, entries) ==
    LET e == SelectEntry(entries)
    IN  IF e.target # Null THEN updateVisibleBackground(s, e.target)
        ELSE IF entries # <<>> THEN updateVisibleBackground(s, entries[1].target)
        ELSE s

\* the IntersectionObserver callback
ObserverCallback(s, entries) ==
    LET e == SelectEntry(entries)
    IN  IF e.target # Null THEN updateVisibleBackground(s, e.target) ELSE s

\* state the browser keeps for a target that has not been reported yet
InitialPrev == [id \in SectionIds |-> [thresholdIndex |-> -1, isIntersecting |-> FALSE]]

setupIntersectionObserver(s) ==
    LET o == [targets |-> PresentSeq, prev |-> InitialPrev, queue |-> <<>>]
        obs == Append(s.observers, o)
    IN  [s EXCEPT
            !.observers = obs,
            !.observer = IF variant = P0 THEN Len(obs) ELSE s.observer]

----------------------------------------------------------------------------
(* Page geometry *)

Abs(x) == IF x < 0 THEN -x ELSE x
Min(a, b) == IF a < b THEN a ELSE b
Max(a, b) == IF a > b THEN a ELSE b

RECURSIVE SumHeights(_, _)
SumHeights(ids, lay) ==
    IF Len(ids) = 0 THEN 0 ELSE lay[Head(ids)] + SumHeights(Tail(ids), lay)

\* document offset of the top edge of a present section
TopOf(id) ==
    SumHeights(SelectSeq(PresentSeq,
                         LAMBDA x : \E i, j \in DOMAIN parallaxSections :
                                       /\ parallaxSections[i] = x
                                       /\ parallaxSections[j] = id
                                       /\ i < j),
               layout)

\* section.getBoundingClientRect() at scroll offset y
RectTop(id, y)    == TopOf(id) - y
RectBottom(id, y) == TopOf(id) - y + layout[id]

MaxScrollY == Max(0, SumHeights(PresentSeq, layout) - ViewportHeight)

\* the comparison as <=: on equal distance the latest section wins
RECURSIVE FindVisibleFrom_LastOnTie(_, _, _, _)
FindVisibleFrom_LastOnTie(i, y, closestSection, closestDistance) ==
    IF i > Len(parallaxSections) THEN closestSection
    ELSE LET id == parallaxSections[i]
             distance == Abs(2 * RectTop(id, y) + layout[id] - ViewportHeight)
         IN  IF id \notin present
             THEN FindVisibleFrom_LastOnTie(i + 1, y, closestSection, closestDistance)
             ELSE IF /\ RectBottom(id, y) > 0
                     /\ RectTop(id, y) < ViewportHeight
                     /\ (closestDistance = -1 \/ distance <= closestDistance)
                  THEN FindVisibleFrom_LastOnTie(i + 1, y, id, distance)
                  ELSE FindVisibleFrom_LastOnTie(i + 1, y, closestSection,
                                                 closestDistance)

\* findVisibleSection of the scroll fallback; distances are kept doubled so
\* that viewportHeight / 2 and rect.height / 2 stay exact
RECURSIVE FindVisibleFrom(_, _, _, _)
FindVisibleFrom(i, y, closestSection, closestDistance) ==
    IF i > Len(parallaxSections) THEN closestSection
    ELSE LET id == parallaxSections[i]
             distance == Abs(2 * RectTop(id, y) + layout[id] - ViewportHeight)
         IN  IF id \notin present
             THEN FindVisibleFrom(i + 1, y, closestSection, closestDistance)
             ELSE IF /\ RectBottom(id, y) > 0
                     /\ RectTop(id, y) < ViewportHeight
                     /\ (closestDistance = -1 \/ distance < closestDistance)
                  THEN FindVisibleFrom(i + 1, y, id, distance)
                  ELSE FindVisibleFrom(i + 1, y, closestSection, closestDistance)

\* closestDistance -1 stands for Infinity
findVisibleSection(y) == FindVisibleFrom(1, y, Null, -1)

----------------------------------------------------------------------------
(* Script functions, continued *)

onScroll(s) ==
    IF ~s.ticking
    THEN [s EXCEPT !.rafQueue = s.rafQueue + 1, !.ticking = TRUE]
    ELSE s

setupScrollHandler(s) ==
    onScroll([s EXCEPT !.scrollListeners = s.scrollListeners + 1])

\* no null check: writes the style of every configured section
hideOriginalBackgrounds_All(s) ==
    [s EXCEPT !.bg = [id \in SectionIds |-> "transparent"]]

hideOriginalBackgrounds(s) ==
    [s EXCEPT !.bg = [id \in SectionIds |->
                        IF id \in present THEN "transparent" ELSE s.bg[id]]]

restoreOriginalBackgrounds(s) ==
    [s EXCEPT !.bg = [id \in SectionIds |->
                        IF id \in present THEN "" ELSE s.bg[id]]]

\* mutant: forgets the border overlay
removeParallaxElements_LeaveOverlay(s) ==
    LET c  == getElementById(s.body, ContainerId)
        b1 == IF c # 0 THEN removeChild(s.body, c) ELSE s.body
        disconnect == variant = P0 /\ s.observer # 0
    IN  [s EXCEPT
            !.body = b1,
            !.observers = IF disconnect THEN removeChild(s.observers, s.observer)
                                        ELSE s.observers,
            !.observer = IF disconnect THEN 0 ELSE s.observer,
            !.parallaxElements = <<>>,
            !.currentVisibleSection = Null]

\* the observer is neither disconnected nor forgotten
removeParallaxElements_KeepObserver(s) ==
    LET c  == getElementById(s.body, ContainerId)
        b1 == IF c # 0 THEN removeChild(s.body, c) ELSE s.body
        o  == getElementById(b1, BorderId)
        b2 == IF variant = P0 /\ o # 0 THEN removeChild(b1, o) ELSE b1
    IN  [s EXCEPT
            !.body = b2,
            !.parallaxElements = <<>>,
            !.currentVisibleSection = Null]

removeParallaxElements(s) ==
    LET c  == getElementById(s.body, ContainerId)
        b1 == IF c # 0 THEN removeChild(s.body, c) ELSE s.body
        o  == getElementById(b1, BorderId)
        b2 == IF variant = P0 /\ o # 0 THEN removeChild(b1, o) ELSE b1
        disconnect == variant = P0 /\ s.observer # 0
    IN  [s EXCEPT
            !.body = b2,
            !.observers = IF disconnect THEN removeChild(s.observers, s.observer)
                                        ELSE s.observers,
            !.observer = IF disconnect THEN 0 ELSE s.observer,
            !.parallaxElements = <<>>,
            !.currentVisibleSection = Null]

\* mutant: the isInitialized guard is missing
initMobileParallax_NoGuard(s) ==
    LET s1 == createFixedBackground(s)
        s2 == hideOriginalBackgrounds(s1)
        s3 == IF variant = MP /\ ~hasIntersectionObserver
              THEN setupScrollHandler(s2)
              ELSE setupIntersectionObserver(s2)
        s4 == updateVisibleBackground(s3, "intro")
    IN  [s4 EXCEPT !.isInitialized = TRUE]

initMobileParallax(s) ==
    IF s.isInitialized THEN s
    ELSE LET s1 == createFixedBackground(s)
             s2 == hideOriginalBackgrounds(s1)
             s3 == IF variant = MP /\ ~hasIntersectionObserver
                   THEN setupScrollHandler(s2)
                   ELSE setupIntersectionObserver(s2)
             s4 == updateVisibleBackground(s3, "intro")
         IN  [s4 EXCEPT !.isInitialized = TRUE]

cleanupMobileParallax(s) ==
    IF ~s.isInitialized THEN s
    ELSE LET s1 == removeParallaxElements(s)
             s2 == restoreOriginalBackgrounds(s1)
         IN  [s2 EXCEPT !.isInitialized = FALSE]

\* the deactivating branch is missing
handleResize_NoCleanup(s) ==
    IF Gate /\ ~s.isInitialized THEN initMobileParallax(s) ELSE s

handleResize(s) ==
    IF Gate /\ ~s.isInitialized THEN initMobileParallax(s)
    ELSE IF ~Gate /\ s.isInitialized THEN cleanupMobileParallax(s)
    ELSE s

\* window.clearTimeout / window.setTimeout on the table of pending timers
clearTimeout(t, h) == [x \in (DOMAIN t) \ {h} |-> t[x]]

NewHandle(t) == CHOOSE h \in 1..(Cardinality(DOMAIN t) + 1) : h \notin DOMAIN t

setTimeout(t, h, ms) == [x \in (DOMAIN t) \cup {h} |-> IF x = h THEN ms ELSE t[x]]

\* mutant: the pending timeout is not cleared
debouncedResize_NoClear(r) ==
    LET h == NewHandle(r.timers)
    IN  [timers |-> setTimeout(r.timers, h, Delay), resizeTimeout |-> h]

\* debouncedResize on [timers, resizeTimeout]
debouncedResize(r) ==
    LET cleared == clearTimeout(r.timers, r.resizeTimeout)
        h == NewHandle(cleared)
    IN  [timers |-> setTimeout(cleared, h, Delay), resizeTimeout |-> h]

\* init(): the gate test and the activation; the listener registration is
\* the started flag
init(s) == IF Gate THEN initMobileParallax(s) ELSE s

----------------------------------------------------------------------------
(* Environment inputs *)

\* outcomes of the user-agent tests for: iPhone Safari, a BlackBerry WebKit
\* browser, Chrome on Android, and IE Mobile (iPhone token, MSStream defined)
UserAgents ==
    { [iDevice |-> TRUE,  MSStream |-> FALSE, safari |-> TRUE,  mobileToken |-> TRUE],
      [iDevice |-> FALSE, MSStream |-> FALSE, safari |-> TRUE,  mobileToken |-> TRUE],
      [iDevice |-> FALSE, MSStream |-> FALSE, safari |-> FALSE, mobileToken |-> TRUE],
      [iDevice |-> TRUE,  MSStream |-> TRUE,  safari |-> FALSE, mobileToken |-> TRUE] }

Widths == {MobileMaxWidth, MobileMaxWidth + 1}

\* an inline background the page author set on a section
AuthorBg == "url(author.jpg)"

\* time steps between events
Durations == {Delay \div 3, 2 * (Delay \div 3), Delay}

\* one IntersectionObserverEntry
Entry(id, isInt, ratio) ==
    [target |-> id, isIntersecting |-> isInt, intersectionRatio |-> ratio]

\* entries the browser can report for the targets of an observer
EntriesOf(targets) ==
    {Entry(targets[i], FALSE, <<0, RatioMax>>) : i \in DOMAIN targets}
    \cup {Entry(targets[i], TRUE, <<k, RatioMax>>) :
              i \in DOMAIN targets, k \in 0..RatioMax}

Batches(targets) ==
    UNION {[1..n -> EntriesOf(targets)] : n \in 1..MaxBatchLen}

----------------------------------------------------------------------------
(* Initial state: the script is loaded, the document is still loading *)

EnvInit ==
    /\ variant \in Variants
    /\ userAgent \in IF variant = MP THEN UserAgents
                     ELSE {CHOOSE u \in UserAgents : u.iDevice /\ ~u.MSStream}
    /\ hasIntersectionObserver \in IF variant = MP THEN BOOLEAN ELSE {TRUE}
    /\ present \in SUBSET SectionIds
    /\ origBg \in {[id \in SectionIds |-> IF id \in present THEN v ELSE ""] :
                      v \in {"", AuthorBg}}
    /\ innerWidth \in Widths

ProgInit ==
    /\ started = FALSE
    /\ parallaxElements = <<>>
    /\ currentVisibleSection = Null
    /\ isInitialized = FALSE
    /\ ticking = FALSE
    /\ observer = 0
    /\ resizeTimeout = 0
    /\ body = <<>>
    /\ bg = origBg
    /\ observers = <<>>
    /\ scrollListeners = 0
    /\ rafQueue = 0
    /\ timers = <<>>
    /\ elapsed = Delay
    /\ resizes = 0
    /\ activations = 0
    /\ calls = 0
    /\ trail = <<>>
    /\ burstLen = 0
    /\ runsInBurst = 0
    /\ transInBurst = 0
    /\ lastTransition = "none"
    /\ lastBatch = <<>>
    /\ lastWrites = 0

Init ==
    /\ EnvInit
    /\ layout = [id \in SectionIds |-> ViewportHeight \div 2]
    /\ scrollY = 0
    /\ ProgInit

----------------------------------------------------------------------------
(* Handlers *)

Transition(s0, s1) ==
    IF ~s0.isInitialized /\ s1.isInitialized THEN "activate"
    ELSE IF s0.isInitialized /\ ~s1.isInitialized THEN "deactivate"
    ELSE "none"

\* bookkeeping of a handler that took the program from Cur to s
Account(s) ==
    /\ lastTransition' = Transition(Cur, s)
    /\ activations' = activations + (IF Transition(Cur, s) = "activate" THEN 1 ELSE 0)

NoTimerDue == \A h \in DOMAIN timers : timers[h] > 0

\* DOMContentLoaded (or immediate call): init()
DOMReady ==
    /\ ~started
    /\ started' = TRUE
    /\ Commit(init(Cur))
    /\ Account(init(Cur))
    /\ UNCHANGED <<envVars, calls, trail, innerWidth, scrollY, resizeTimeout, timers,
                   elapsed, resizes, burstLen, runsInBurst, transInBurst>>
    /\ lastBatch' = <<>>
    /\ lastWrites' = 0

\* 'resize' event with the new window width: debouncedResize()
ResizeEvent(w) ==
    /\ started
    /\ resizes < MaxResizes
    /\ NoTimerDue
    /\ innerWidth' = w
    /\ LET r == debouncedResize([timers |-> timers, resizeTimeout |-> resizeTimeout])
       IN  timers' = r.timers /\ resizeTimeout' = r.resizeTimeout
    /\ resizes' = resizes + 1
    /\ elapsed' = 0
    /\ burstLen' = IF elapsed < Delay THEN burstLen + 1 ELSE 1
    /\ runsInBurst' = IF elapsed < Delay THEN runsInBurst ELSE 0
    /\ transInBurst' = IF elapsed < Delay THEN transInBurst ELSE 0
    /\ lastTransition' = "none"
    /\ UNCHANGED <<envVars, calls, trail, progVars, scrollY, started, activations>>
    /\ lastBatch' = <<>>
    /\ lastWrites' = 0

\* time passes; no pending timer is overrun
Advance(d) ==
    /\ started
    /\ \A h \in DOMAIN timers : timers[h] >= d
    /\ DOMAIN timers # {} \/ elapsed < Delay
    /\ timers' = [h \in DOMAIN timers |-> timers[h] - d]
    /\ elapsed' = Min(elapsed + d, Delay)
    /\ lastTransition' = "none"
    /\ UNCHANGED <<envVars, calls, trail, progVars, innerWidth, scrollY, started, resizeTimeout,
                   resizes, activations, burstLen, runsInBurst, transInBurst>>
    /\ lastBatch' = <<>>
    /\ lastWrites' = 0

\* the timeout set by debouncedResize expires: handleResize()
TimerFire(h) ==
    /\ h \in DOMAIN timers
    /\ timers[h] = 0
    /\ timers' = clearTimeout(timers, h)
    /\ Commit(handleResize(Cur))
    /\ Account(handleResize(Cur))
    /\ runsInBurst' = runsInBurst + 1
    /\ transInBurst' = transInBurst
                        + (IF Transition(Cur, handleResize(Cur)) # "none" THEN 1 ELSE 0)
    /\ lastBatch' = <<>>
    /\ lastWrites' = 0
    /\ UNCHANGED <<envVars, calls, trail, innerWidth, scrollY, started, resizeTimeout,
                   elapsed, resizes, burstLen>>

\* the browser delivers a notification batch to a connected observer
Deliver(i, batch) ==
    /\ i \in DOMAIN observers
    /\ Commit(ObserverCallback(Cur, batch))
    /\ Account(ObserverCallback(Cur, batch))
    /\ UNCHANGED <<envVars, calls, trail, innerWidth, scrollY, started, resizeTimeout, timers,
                   elapsed, resizes, burstLen, runsInBurst, transInBurst>>

ObserverNotify(i, batch) ==
    /\ Deliver(i, batch)
    /\ lastBatch' = <<>>
    /\ lastWrites' = 0

RECURSIVE Times(_, _)
Times(n, s) == IF n = 0 THEN s ELSE Times(n - 1, onScroll(s))

\* 'scroll' event: every registered onScroll listener runs
ScrollEvent(y) ==
    /\ scrollListeners > 0
    /\ y # scrollY
    /\ scrollY' = y
    /\ Commit(Times(scrollListeners, Cur))
    /\ Account(Times(scrollListeners, Cur))
    /\ UNCHANGED <<envVars, calls, trail, innerWidth, started, resizeTimeout, timers,
                   elapsed, resizes, burstLen, runsInBurst, transInBurst>>
    /\ lastBatch' = <<>>
    /\ lastWrites' = 0

\* the callback passed to requestAnimationFrame
FrameCallback(s) ==
    LET visibleSection == findVisibleSection(scrollY)
        s1 == IF visibleSection # Null
              THEN updateVisibleBackground(s, visibleSection) ELSE s
    IN  [s1 EXCEPT !.ticking = FALSE, !.rafQueue = s.rafQueue - 1]

AnimationFrame ==
    /\ rafQueue > 0
    /\ Commit(FrameCallback(Cur))
    /\ Account(FrameCallback(Cur))
    /\ UNCHANGED <<envVars, calls, trail, innerWidth, scrollY, started, resizeTimeout, timers,
                   elapsed, resizes, burstLen, runsInBurst, transInBurst>>
    /\ lastBatch' = <<>>
    /\ lastWrites' = 0

Next ==
    \/ DOMReady
    \/ \E w \in Widths : ResizeEvent(w)
    \/ \E d \in Durations : Advance(d)
    \/ \E h \in DOMAIN timers : TimerFire(h)
    \/ \E i \in DOMAIN observers : \E batch \in Batches(observers[i].targets) :
           ObserverNotify(i, batch)
    \/ \E y \in 0..MaxScrollY : ScrollEvent(y)
    \/ AnimationFrame

Spec == Init /\ [][Next]_vars

----------------------------------------------------------------------------
(* Notification batches kept for inspection *)

ObserverNotifyRecorded(i, batch) ==
    /\ Deliver(i, batch)
    /\ lastBatch' = batch
    /\ lastWrites' = 0

NextSelect ==
    \/ DOMReady
    \/ \E i \in DOMAIN observers : \E batch \in Batches(observers[i].targets) :
           ObserverNotifyRecorded(i, batch)

SpecSelect == Init /\ [][NextSelect]_vars

\* the same on a phone that activates: any subset of the sections present
InitBatch ==
    /\ variant \in Variants
    /\ userAgent = CHOOSE u \in UserAgents : u.iDevice /\ ~u.MSStream
    /\ hasIntersectionObserver = TRUE
    /\ present \in SUBSET SectionIds
    /\ origBg = [id \in SectionIds |-> ""]
    /\ innerWidth = MobileMaxWidth
    /\ layout = [id \in SectionIds |-> ViewportHeight \div 2]
    /\ scrollY = 0
    /\ ProgInit

SpecBatch == InitBatch /\ [][NextSelect]_vars

----------------------------------------------------------------------------
(* A window whose width never changes: resize events report the same width *)

NextFixedWidth ==
    \/ DOMReady
    \/ ResizeEvent(innerWidth)
    \/ \E d \in Durations : Advance(d)
    \/ \E h \in DOMAIN timers : TimerFire(h)
    \/ \E i \in DOMAIN observers : \E batch \in Batches(observers[i].targets) :
           ObserverNotify(i, batch)
    \/ \E y \in 0..MaxScrollY : ScrollEvent(y)
    \/ AnimationFrame

SpecFixedWidth == Init /\ [][NextFixedWidth]_vars

----------------------------------------------------------------------------
(* The lifecycle alone: init, resize events and the debounce timer.  Time   *)
(* passes and a due timeout is run by the event loop, hence the weak        *)
(* fairness of Advance and TimerFire.                                       *)

NextLifecycle ==
    \/ DOMReady
    \/ \E w \in Widths : ResizeEvent(w)
    \/ \E d \in Durations : Advance(d)
    \/ \E h \in DOMAIN timers : TimerFire(h)

SpecLifecycle ==
    /\ Init
    /\ [][NextLifecycle]_vars
    /\ WF_vars(\E d \in Durations : Advance(d))
    /\ WF_vars(\E h \in DOMAIN timers : TimerFire(h))

----------------------------------------------------------------------------
(* Direct calls of the lifecycle functions, in any state of the page *)

Call(name, s) ==
    /\ calls < MaxCalls
    /\ calls' = calls + 1
    /\ Commit(s)
    /\ lastTransition' =
          IF Transition(Cur, s) = "none" THEN name ELSE Transition(Cur, s)
    /\ activations' = activations + (IF Transition(Cur, s) = "activate" THEN 1 ELSE 0)
    /\ lastBatch' = <<>>
    /\ lastWrites' = 0
    /\ UNCHANGED <<envVars, trail, innerWidth, scrollY, started, resizeTimeout, timers,
                   elapsed, resizes, burstLen, runsInBurst, transInBurst>>

CallInitMobileParallax    == Call("noop:initMobileParallax", initMobileParallax(Cur))
CallCleanupMobileParallax == Call("noop:cleanupMobileParallax", cleanupMobileParallax(Cur))
CallHandleResize          == Call("noop:handleResize", handleResize(Cur))

NextCalls ==
    \/ DOMReady
    \/ \E w \in Widths : ResizeEvent(w)
    \/ CallInitMobileParallax
    \/ CallCleanupMobileParallax
    \/ CallHandleResize

SpecCalls == Init /\ [][NextCalls]_vars

----------------------------------------------------------------------------
(* updateVisibleBackground called directly with any configured section id, *)
(* in any state the lifecycle reaches                                       *)

CallUpdateVisibleBackground(sectionId) ==
    /\ started
    /\ NoTimerDue
    /\ calls < MaxCalls
    /\ calls' = calls + 1
    /\ LET s == updateVisibleBackground(Cur, sectionId)
       IN  /\ Commit(s)
           /\ lastWrites' = s.writes
    /\ lastTransition' = IF sectionId = currentVisibleSection
                         THEN "same:updateVisibleBackground"
                         ELSE "other:updateVisibleBackground"
    /\ lastBatch' = <<>>
    /\ UNCHANGED <<envVars, trail, innerWidth, scrollY, started, resizeTimeout, timers,
                   elapsed, resizes, activations, burstLen, runsInBurst, transInBurst>>

NextUpdate ==
    \/ DOMReady
    \/ \E w \in Widths : ResizeEvent(w)
    \/ \E d \in Durations : Advance(d)
    \/ \E h \in DOMAIN timers : TimerFire(h)
    \/ \E sectionId \in SectionIds : CallUpdateVisibleBackground(sectionId)

SpecUpdate == Init /\ [][NextUpdate]_vars

----------------------------------------------------------------------------
(* Scrolling down a page of three stacked sections, with the notifications  *)
(* the IntersectionObserver computes from the geometry.  Lengths are        *)
(* multiplied by 100 so that the percent root margins stay exact.           *)

BandTop    == RootMarginPct(variant) * ViewportHeight
BandBottom == (100 - RootMarginPct(variant)) * ViewportHeight

IsIntersectingAt(id, y) ==
    Min(100 * RectBottom(id, y), BandBottom) >= Max(100 * RectTop(id, y), BandTop)

OverlapAt(id, y) ==
    Max(0, Min(100 * RectBottom(id, y), BandBottom) - Max(100 * RectTop(id, y), BandTop))

RatioAt(id, y) == <<OverlapAt(id, y), 100 * layout[id]>>

\* index of the first threshold greater than the ratio, or their number
ThresholdIndex(r) ==
    LET th == Thresholds(variant)
        above == {k \in DOMAIN th : th[k] * r[2] > 10 * r[1]}
    IN  IF above = {} THEN Len(th)
        ELSE (CHOOSE k \in above : \A j \in above : k <= j) - 1

\* what the observer records for a target in a frame rendered at offset y
Observation(id, y) ==
    [thresholdIndex |-> ThresholdIndex(RatioAt(id, y)),
     isIntersecting |-> IsIntersectingAt(id, y)]

\* one frame of an observer: an entry is queued for every target whose
\* threshold index or isIntersecting changed
ObserveFrame(o, y) ==
    LET changed == SelectSeq(o.targets, LAMBDA id : Observation(id, y) # o.prev[id])
        entries == [k \in DOMAIN changed |->
                       Entry(changed[k], IsIntersectingAt(changed[k], y),
                             RatioAt(changed[k], y))]
    IN  [o EXCEPT
            !.queue = o.queue \o entries,
            !.prev = [id \in SectionIds |->
                        IF id \in present THEN Observation(id, y) ELSE o.prev[id]]]

\* the viewport midpoint lies inside the section
MidpointInside(id, y) ==
    /\ 2 * RectTop(id, y) <= ViewportHeight
    /\ ViewportHeight < 2 * RectBottom(id, y)

LayoutHeights == {ViewportHeight \div 5, ViewportHeight, 2 * ViewportHeight}

InitScroll ==
    /\ variant \in Variants
    /\ userAgent = CHOOSE u \in UserAgents : u.iDevice /\ ~u.MSStream
    /\ hasIntersectionObserver = TRUE
    /\ present = SectionIds
    /\ origBg = [id \in SectionIds |-> ""]
    /\ innerWidth = MobileMaxWidth
    /\ layout \in [SectionIds -> LayoutHeights]
    /\ scrollY \in 0..(2 * ViewportHeight)
    /\ scrollY <= MaxScrollY
    /\ MidpointInside("intro", scrollY)
    /\ ProgInit

\* the page is scrolled down by d and a frame is rendered; the midpoint
\* stays inside 'intro' or 'one'
RenderFrame(d) ==
    /\ started
    /\ scrollY + d <= MaxScrollY
    /\ MidpointInside("intro", scrollY + d) \/ MidpointInside("one", scrollY + d)
    /\ scrollY' = scrollY + d
    /\ observers' = [i \in DOMAIN observers |-> ObserveFrame(observers[i], scrollY + d)]
    /\ lastTransition' = "none"
    /\ lastBatch' = <<>>
    /\ lastWrites' = 0
    /\ UNCHANGED <<envVars, calls, trail, innerWidth, started, resizeTimeout, timers,
                   elapsed, resizes, activations, burstLen, runsInBurst, transInBurst,
                   parallaxElements, currentVisibleSection, isInitialized, ticking,
                   observer, body, bg, scrollListeners, rafQueue>>

\* the browser delivers everything an observer has queued
NotifyQueued(i) ==
    /\ i \in DOMAIN observers
    /\ observers[i].queue # <<>>
    /\ LET s == ObserverCallback([Cur EXCEPT !.observers[i].queue = <<>>],
                                 observers[i].queue)
       IN  /\ Commit(s)
           /\ Account(s)
           /\ trail' = IF s.currentVisibleSection # currentVisibleSection
                        THEN Append(trail, s.currentVisibleSection) ELSE trail
    /\ lastBatch' = observers[i].queue
    /\ lastWrites' = 0
    /\ UNCHANGED <<envVars, calls, innerWidth, scrollY, started, resizeTimeout, timers,
                   elapsed, resizes, burstLen, runsInBurst, transInBurst>>

NextScroll ==
    \/ DOMReady
    \/ \E d \in 0..MaxStep : RenderFrame(d)
    \/ \E i \in DOMAIN observers : NotifyQueued(i)

SpecScroll == InitScroll /\ [][NextScroll]_vars

----------------------------------------------------------------------------
(* The scroll fallback of mobile-parallax.js: no IntersectionObserver, any  *)
(* subset of the sections present, any layout, the page scrolled anywhere   *)
(* up to the point where the last section has left the viewport (other      *)
(* content follows the sections).                                           *)

InitFallback ==
    /\ variant = MP
    /\ userAgent = CHOOSE u \in UserAgents : u.iDevice /\ ~u.MSStream
    /\ hasIntersectionObserver = FALSE
    /\ present \in SUBSET SectionIds
    /\ origBg = [id \in SectionIds |-> ""]
    /\ innerWidth = MobileMaxWidth
    /\ layout \in [SectionIds -> LayoutHeights]
    /\ scrollY = 0
    /\ ProgInit

PageEnd == SumHeights(PresentSeq, layout)

NextFallback ==
    \/ DOMReady
    \/ \E y \in 0..PageEnd : ScrollEvent(y)
    \/ AnimationFrame

SpecFallback == InitFallback /\ [][NextFallback]_vars

----------------------------------------------------------------------------
(* Claims *)

VisibleSections == {body[l[1]].layers[l[2]].section : l \in VisibleLayers}

\* C1: in every reachable state at most one layer element of the document is
\* in the visible state (opacity '1' / display 'block').
C1_AtMostOneVisible == Cardinality(VisibleLayers) <= 1

\* a layer other than the initial one is shown after resize traffic
C1_Witness ==
    /\ isInitialized
    /\ resizes >= 1
    /\ VisibleSections = {"one"}

\* C2: whenever isInitialized is false no injected node is in the document
\* and parallaxElements is empty, also after activate/deactivate cycles.
C2_TornDownWhenInactive ==
    ~isInitialized => (body = <<>> /\ parallaxElements = <<>>)

\* inactive again after the second activation
C2_Witness == ~isInitialized /\ activations >= 2

\* C3: right after every INACTIVE -> ACTIVE transition currentVisibleSection
\* is 'intro' and the 'intro' layer is the one visible layer.
C3_IntroAfterActivation ==
    lastTransition = "activate" =>
        (currentVisibleSection = "intro" /\ VisibleSections = {"intro"})

\* C4: after cleanupMobileParallax and until the next activation nothing
\* changes currentVisibleSection (it stays null) or touches the DOM.
C4_QuietWhenInactive ==
    (~isInitialized /\ activations >= 1) =>
        (currentVisibleSection = Null /\ body = <<>> /\ bg = [id \in SectionIds |-> IF id \in present THEN "" ELSE origBg[id]])

\* at most one container and border overlay; one entry per section while ACTIVE
C5_Shape ==
    /\ Cardinality(Containers) <= 1
    /\ Cardinality(Borders) <= 1
    /\ isInitialized =>
          /\ Len(parallaxElements) = Len(parallaxSections)
          /\ \A i \in DOMAIN parallaxSections :
                parallaxElements[i].sectionId = parallaxSections[i]

\* C5: initMobileParallax while ACTIVE and cleanupMobileParallax while INACTIVE
\* change nothing; the document never holds more than one container (or
\* border overlay) and, while ACTIVE, parallaxElements has exactly one entry
\* per configured section.
C5_Idempotent ==
    [][ /\ lastTransition' \in {"noop:initMobileParallax", "noop:cleanupMobileParallax"}
           => UNCHANGED progVars
        /\ C5_Shape' ]_vars

\* initMobileParallax was called while ACTIVE, after a re-activation
C5_Witness ==
    /\ lastTransition = "noop:initMobileParallax"
    /\ isInitialized
    /\ activations >= 2

\* C6: an activation followed by a deactivation removes every injected node
\* and leaves each section's inline background as it was before activation.
C6_BackgroundRestored ==
    (~isInitialized /\ activations >= 1) => (body = <<>> /\ bg = origBg)

\* C8: at most one debounce timer is pending; handleResize runs exactly once
\* per burst, Delay after its last event, so a burst makes at most one
\* lifecycle transition.
C8_Debounce ==
    /\ Cardinality(DOMAIN timers) <= 1
    /\ \A h \in DOMAIN timers : timers[h] = Delay - elapsed
    /\ runsInBurst <= 1
    /\ transInBurst <= 1
    /\ DOMAIN timers # {} => runsInBurst = 0
    /\ (burstLen >= 1 /\ DOMAIN timers = {}) => runsInBurst = 1

\* a burst of several events ended in one run that made a transition
C8_Witness ==
    /\ burstLen >= 2
    /\ DOMAIN timers = {}
    /\ runsInBurst = 1
    /\ transInBurst = 1

\* the user agent makes isFixedBackgroundSupported() false
C9_FixedUnsupported ==
    \/ userAgent.iDevice /\ ~userAgent.MSStream
    \/ userAgent.mobileToken /\ userAgent.safari

\* C9 as stated: at a fixed width w the activation happens exactly once (at
\* init) if w <= 736 and never if w > 736.
C9_ByWidthOnly ==
    started => activations = (IF innerWidth <= 736 THEN 1 ELSE 0)

\* C9: at a fixed width w the activation happens exactly once, at init, if
\* w <= 736 and (in mobile-parallax.js) the user agent is one without fixed
\* background support; otherwise it never happens.
C9_ByGate ==
    activations =
        (IF /\ started
            /\ innerWidth <= 736
            /\ (variant = MP => C9_FixedUnsupported)
         THEN 1 ELSE 0)

\* still one activation after resize events and a timer firing
C9_Witness ==
    /\ activations = 1
    /\ resizes >= 2
    /\ runsInBurst = 1
    /\ DOMAIN timers = {}

\* the entry C10 expects: highest ratio among the intersecting entries, the
\* first in batch order among equals
C10_Expected(entries) ==
    LET i == CHOOSE i \in DOMAIN entries :
                /\ entries[i].isIntersecting
                /\ \A j \in DOMAIN entries :
                      entries[j].isIntersecting =>
                        /\ ~RatioGT(entries[j].intersectionRatio,
                                    entries[i].intersectionRatio)
                        /\ j < i => RatioGT(entries[i].intersectionRatio,
                                            entries[j].intersectionRatio)
    IN  entries[i].target

\* C10: after a batch with at least one intersecting entry (ratio 0
\* included) currentVisibleSection is the target of the intersecting entry
\* with the highest ratio, the first in batch order among equals.
C10_Selection ==
    (\E i \in DOMAIN lastBatch : lastBatch[i].isIntersecting) =>
        currentVisibleSection = C10_Expected(lastBatch)

\* C7: while the midpoint moves from inside 'intro' to inside 'one',
\* currentVisibleSection changes from 'intro' to 'one' once: it never goes
\* back to 'intro' and never becomes 'two'.
C7_IntroToOneOnce == trail \in {<<>>, <<"one">>}

\* the intersecting sections no intersecting section has a higher ratio than
C11_MostVisible ==
    {id \in present :
        /\ IsIntersectingAt(id, scrollY)
        /\ \A other \in present :
              IsIntersectingAt(other, scrollY) =>
                ~RatioGT(RatioAt(other, scrollY), RatioAt(id, scrollY))}

\* C11: after a notification batch was processed while ACTIVE,
\* currentVisibleSection is the section with the highest intersection ratio
\* among all observed sections intersecting at that moment, whether or not
\* they have an entry in the batch.
C11_BestOfAllIntersecting ==
    (isInitialized /\ lastBatch # <<>> /\ C11_MostVisible # {}) =>
        currentVisibleSection \in C11_MostVisible

\* C17: while ACTIVE exactly one Visibility Selector registration is live
\* (connected observers plus scroll listeners), and their number never
\* exceeds one, whatever the number of activate/deactivate cycles.
C17_OneRegistration ==
    /\ Len(observers) + scrollListeners <= 1
    /\ isInitialized => Len(observers) + scrollListeners = 1

\* C12: a call of updateVisibleBackground with the id currentVisibleSection
\* already holds writes no layer style and changes no program state.
C12_SameIdNoOp ==
    [][lastTransition' = "same:updateVisibleBackground" =>
          (lastWrites' = 0 /\ UNCHANGED progVars)]_vars

C12_Witness ==
    /\ lastTransition = "same:updateVisibleBackground"
    /\ isInitialized
    /\ currentVisibleSection = "one"
    /\ Len(parallaxElements) > 0

\* the sections some connected observer observes
C13_Observed == {id \in SectionIds :
                    \E i \in DOMAIN observers : \E k \in DOMAIN observers[i].targets :
                        observers[i].targets[k] = id}

\* C13: whatever subset of the configured sections the document holds,
\* activation completes with isInitialized true, every present section made
\* transparent and (where an IntersectionObserver is set up) observed by the
\* new observer; an absent section is never observed and its style is never
\* written; deactivation completes too, with every inserted node removed.
C13_MissingSectionsSkipped ==
    /\ \A id \in SectionIds \ present : bg[id] = origBg[id] /\ id \notin C13_Observed
    /\ lastTransition = "activate" =>
          /\ isInitialized
          /\ \A id \in present : bg[id] = "transparent"
          /\ hasIntersectionObserver =>
                /\ observers # <<>>
                /\ observers[Len(observers)].targets = PresentSeq
    /\ lastTransition = "deactivate" =>
          /\ ~isInitialized
          /\ body = <<>>
          /\ parallaxElements = <<>>

C13_Witness ==
    /\ lastTransition = "activate"
    /\ activations = 2
    /\ present = {"one"}
    /\ hasIntersectionObserver

C14_Eligible ==
    {id \in present : RectBottom(id, scrollY) > 0 /\ RectTop(id, scrollY) < ViewportHeight}

\* twice the distance of a section's vertical midpoint to viewportHeight / 2
C14_Distance(id) == Abs(2 * TopOf(id) + layout[id] - 2 * scrollY - ViewportHeight)

C14_Position(id) == CHOOSE i \in DOMAIN parallaxSections : parallaxSections[i] = id

C14_Closest ==
    {id \in C14_Eligible : \A other \in C14_Eligible : C14_Distance(id) <= C14_Distance(other)}

C14_Expected ==
    IF C14_Eligible = {} THEN Null
    ELSE CHOOSE id \in C14_Closest :
            \A other \in C14_Closest : C14_Position(id) <= C14_Position(other)

\* C14: a scroll frame of the fallback selects, among the present sections
\* with rect.bottom > 0 and rect.top < viewportHeight, the one whose midpoint
\* is closest to viewportHeight / 2, the earliest configured on equal
\* distance; when no section is eligible findVisibleSection returns null and
\* the frame leaves currentVisibleSection unchanged.
C14_ClosestToCentre ==
    [][rafQueue' < rafQueue =>
          /\ findVisibleSection(scrollY) = C14_Expected
          /\ currentVisibleSection' =
                IF C14_Expected = Null THEN currentVisibleSection ELSE C14_Expected]_vars

\* a frame has run after the last scroll and kept 'one', which is as close
\* to the centre as 'two'
C14_Witness ==
    /\ ~hasIntersectionObserver
    /\ rafQueue = 0
    /\ scrollY > 0
    /\ currentVisibleSection = "one"
    /\ C14_Closest = {"one", "two"}

C15_NoneIntersecting(entries) ==
    entries # <<>> /\ \A i \in DOMAIN entries : ~entries[i].isIntersecting

\* C15: a notification batch in which no entry is intersecting leaves
\* currentVisibleSection and the visibility of every layer unchanged.
C15_EmptyBatchKeepsLayer ==
    [][C15_NoneIntersecting(lastBatch') =>
          UNCHANGED <<currentVisibleSection, body, parallaxElements>>]_vars

\* the layer of 'one', selected earlier, is still the visible one after a
\* batch that reports 'one' as no longer intersecting
C15_Witness ==
    /\ isInitialized
    /\ C15_NoneIntersecting(lastBatch)
    /\ \E i \in DOMAIN lastBatch : lastBatch[i].target = "one"
    /\ currentVisibleSection = "one"
    /\ VisibleSections = {"one"}

\* the display of the layer parallaxElements[i] refers to, "detached" when
\* its container is not in the document
C16_Display(i) ==
    LET ref == parallaxElements[i].element
        in  == {n \in Containers : body[n].key = ref[1]}
    IN  IF in = {} THEN "detached"
        ELSE body[CHOOSE n \in in : TRUE].layers[ref[2]].style

\* C16: in part_000, isInitialized is true exactly when observer is
\* non-null, and while it is true currentVisibleSection is a configured
\* section id, the layer of that section has display 'block' and every other
\* layer has display 'none'.
C16_ObserverAndLayers ==
    variant = P0 =>
        /\ isInitialized <=> observer # 0
        /\ isInitialized =>
              /\ currentVisibleSection \in SectionIds
              /\ \E i \in DOMAIN parallaxElements :
                    parallaxElements[i].sectionId = currentVisibleSection
              /\ \A i \in DOMAIN parallaxElements :
                    C16_Display(i) = IF parallaxElements[i].sectionId = currentVisibleSection
                                     THEN "block" ELSE "none"
              /\ VisibleSections = {currentVisibleSection}
              /\ Cardinality(DomLayers) = Len(parallaxElements)

C16_Witness ==
    /\ variant = P0
    /\ isInitialized
    /\ observer # 0
    /\ activations = 2
    /\ currentVisibleSection = "two"

C18_TimerPending == DOMAIN timers # {}

\* C18: once init has run, a pending debounce timer eventually fires when
\* the resize events stop, and in every state without a pending timer
\* isInitialized equals the value of the activation gate for the current
\* viewport.
C18_FollowsGate ==
    /\ []((started /\ ~C18_TimerPending) => (isInitialized = Gate))
    /\ C18_TimerPending ~> ~C18_TimerPending

\* the timer of a resize that closed the gate has fired
C18_Witness ==
    /\ started
    /\ ~C18_TimerPending
    /\ resizes >= 2
    /\ activations = 1
    /\ lastTransition = "deactivate"
    /\ ~isInitialized
    /\ ~Gate

====
